---- MODULE Spec2Model ----
(***************************************************************************)
(* Model of linux/arch.c: arch_launchChild (runs in the forked child, up   *)
(* to execvp) and arch_reapChild (runs in the supervisor).                 *)
(***************************************************************************)
EXTENDS Integers, Sequences, FiniteSets, TLC

VARIABLES
    \* ---- hfuzz (read-only configuration) and the fileName parameter
    cmdline,        \* hfuzz->cmdline, without its terminating NULL
    fuzzStdin,      \* hfuzz->fuzzStdin
    nullifyStdio,   \* hfuzz->nullifyStdio
    tmOut,          \* hfuzz->tmOut
    asLimit,        \* hfuzz->asLimit
    fileName,
    \* ---- arch_launchChild: its position and the process attributes it sets
    lpc,            \* position in arch_launchChild
    env,            \* environment variables of the process
    pdeathsig,      \* signal requested on parent death ("none" when unset)
    persona,        \* personality(2) flags of the process
    args,           \* char *args[ARGS_MAX + 2], the part written so far
    itProf,         \* ITIMER_PROF as last set by setitimer
    itReal,         \* ITIMER_REAL as the process holds it (getitimer)
    rlimitCpu,      \* RLIMIT_CPU
    rlimitAs,       \* RLIMIT_AS
    stdio,          \* what fds 0, 1, 2 are bound to
    ptraceOn,       \* arch_ptraceEnable succeeded
    image,          \* argv of the image running in the process
    lresult,        \* return value of arch_launchChild
    steps,          \* the calls arch_launchChild has made, in order
    failed,         \* the calls among them that failed
    wall,           \* wall-clock seconds elapsed since execvp
    sigalrm,        \* SIGALRM deliveries from ITIMER_REAL
    \* ---- arch_reapChild
    rpc,            \* position in arch_reapChild
    pid,            \* pid_t pid (last wait3 return value)
    status,         \* int status (written by wait3)
    perfEnabled,    \* bool perfEnabled
    perfFd,         \* int perfFd (block-scoped, one per iteration)
    handle,         \* the descriptor arch_perfEnable stored through &perfFd
    verdict,        \* arch_ptraceAnalyze's result for the last state change
    rlog,           \* collaborator calls made by arch_reapChild, in order
    nWait,          \* wait3 calls made
    waits,          \* the wait3 results > 0 so far, with their status
    \* ---- the two processes
    parentAlive,    \* the supervisor (parent of the forked child) is alive
    killed          \* the child was sent its parent-death signal

cfgvars == <<cmdline, fuzzStdin, nullifyStdio, tmOut, asLimit, fileName>>
lvars == <<lpc, env, pdeathsig, persona, args, itProf, itReal, rlimitCpu,
           rlimitAs, stdio, ptraceOn, image, lresult, steps, failed,
           wall, sigalrm>>
rvars == <<rpc, pid, status, perfEnabled, perfFd, handle, verdict, rlog, nWait,
           waits>>
pvars == <<parentAlive, killed>>
vars == <<cfgvars, lvars, rvars, pvars>>

----------------------------------------------------------------------------
\* Bounds of the model
MaxShort == 3       \* short templates have 1..MaxShort arguments
MaxOver == 1        \* long templates have ARGS_MAX..ARGS_MAX+MaxOver arguments
MaxTmOut == 2       \* hfuzz->tmOut ranges over 0..MaxTmOut
MaxWall == 5        \* wall-clock seconds observed after execvp
MaxWait == 4        \* wait3 calls per arch_reapChild run

\* Program constants
ARGS_MAX == 512
HF_FILE_PLACEHOLDER == "___FILE___"
NULL == "(null)"
SIGKILL == "SIGKILL"
ADDR_NO_RANDOMIZE == "ADDR_NO_RANDOMIZE"

----------------------------------------------------------------------------
\* Inputs: command-line templates, file names
Flags == <<"-a", "-b", "-c">>
ArgAt(i) == IF i = 1 THEN "/bin/target" ELSE Flags[(i % 3) + 1]
Template(n, P) ==
    [i \in 1..n |-> IF i \in P THEN HF_FILE_PLACEHOLDER ELSE ArgAt(i)]
Lens == (1..MaxShort) \cup (ARGS_MAX..(ARGS_MAX + MaxOver))
Slots == {2, ARGS_MAX, ARGS_MAX + 1}
Templates ==
    UNION {{Template(n, P) : P \in SUBSET {s \in Slots : s <= n}} : n \in Lens}
FileNames == {"/tmp/case1"}

\* hfuzz->cmdline[x] for a 0-based x, NULL at and past the terminator
cmdlineAt(x) == IF x < Len(cmdline) THEN cmdline[x + 1] ELSE NULL

----------------------------------------------------------------------------
\* setitimer(2): the timer is armed iff it_value is nonzero; an armed timer
\* expires when it_value has elapsed and is then reloaded with it_interval.
Armed(it) == it.it_value > 0
Disarmed == [it_interval |-> 0, it_value |-> 0]
NoLimit == [rlim_cur |-> -1, rlim_max |-> -1]      \* RLIM_INFINITY

\* struct itimerval it_prof (lines 109-112)
it_prof == [it_interval |-> tmOut, it_value |-> 0]
\* struct itimerval it_real (lines 122-125)
it_real == [it_interval |-> tmOut * 2, it_value |-> 0]
\* setitimer(ITIMER_REAL, &new, NULL) (line 127): a zero it_value stops the
\* timer and clears its reload value, whatever it_interval was passed
setitimer_real(new) == IF new.it_value = 0 THEN Disarmed ELSE new
\* struct rlimit rl (lines 135-138)
rl_cpu == [rlim_cur |-> tmOut * 2, rlim_max |-> tmOut * 2]
\* struct rlimit rl (lines 149-152), in MiB units of 1024 * 1024 bytes
rl_as == [rlim_cur |-> asLimit * 1024 * 1024, rlim_max |-> asLimit * 1024 * 1024]

\* The value of x when the for loop of line 90 exits: the first index at
\* which its condition x < ARGS_MAX && hfuzz->cmdline[x] is false.
LoopExit ==
    CHOOSE x \in 0..ARGS_MAX :
        /\ ~(x < ARGS_MAX /\ cmdlineAt(x) # NULL)
        /\ \A y \in 0..(x - 1) : y < ARGS_MAX /\ cmdlineAt(y) # NULL

\* The body of the for loop (lines 91-95): the value stored in args[x]
ArgFor(x) ==
    IF ~fuzzStdin /\ cmdlineAt(x) = HF_FILE_PLACEHOLDER
    THEN fileName
    ELSE cmdlineAt(x)

\* args[0..x] after line 98: the loop's stores, then args[x++] = NULL
Materialize == [i \in 1..LoopExit |-> ArgFor(i - 1)] \o <<NULL>>

\* stdio collaborators (util.c)
TtyStdio == [in |-> "tty", out |-> "tty", err |-> "tty"]
NullStdio == [in |-> "/dev/null", out |-> "/dev/null", err |-> "/dev/null"]
util_nullifyStdio == NullStdio
util_redirectStdin(f) == [stdio EXCEPT !.in = f]
util_recoverStdio == TtyStdio

\* LOGMSG(l_FATAL, ...) that only logs and returns to the next statement
LogFatalEnds_Returns == FALSE
\* LOGMSG(l_FATAL, ...) (log.c): the process ends inside the call, at both
\* of its uses (lines 178 and 194)
LogFatalEnds == TRUE

----------------------------------------------------------------------------
\* arch_launchChild

\* Where control goes next: the conditions of lines 162, 158, 148 and 105
\* select the first configured step.
AfterNullify == IF fuzzStdin THEN "redirect" ELSE "ptrace"
AfterRlimitAs == IF nullifyStdio THEN "nullify" ELSE AfterNullify
AfterTimeout == IF asLimit # 0 THEN "rlimit_as" ELSE AfterRlimitAs
\* AfterArgs with the test of line 105 always false (timeout never armed)
AfterArgs_NoTimeout == AfterTimeout
AfterArgs == IF tmOut # 0 THEN "setitimer_prof" ELSE AfterTimeout

\* The call s was made and succeeded
Ok(s) ==
    /\ steps' = Append(steps, s)
    /\ UNCHANGED <<failed, lresult>>

\* The call s was made and failed, and the function returns false
Fatal(s) ==
    /\ steps' = Append(steps, s)
    /\ failed' = failed \cup {s}
    /\ lpc' = "returned"
    /\ lresult' = FALSE

\* lines 57-60
SetenvMallocCheck ==
    /\ lpc = "setenv_malloc"
    /\ \/ /\ env' = [env EXCEPT !["MALLOC_CHECK_"] = "3"]
          /\ Ok("setenv_malloc")
          /\ lpc' = "setenv_asan"
       \/ /\ Fatal("setenv_malloc")
          /\ UNCHANGED env
    /\ UNCHANGED <<pdeathsig, persona, args, itProf, itReal, rlimitCpu, rlimitAs, stdio, ptraceOn, image, wall, sigalrm>>
    /\ UNCHANGED <<cfgvars, rvars, pvars>>

\* lines 65-68
SetenvAsan ==
    /\ lpc = "setenv_asan"
    /\ \/ /\ env' = [env EXCEPT !["ASAN_OPTIONS"] = "handle_segv=0:abort_on_error=1"]
          /\ Ok("setenv_asan")
          /\ lpc' = "prctl"
       \/ /\ Fatal("setenv_asan")
          /\ UNCHANGED env
    /\ UNCHANGED <<pdeathsig, persona, args, itProf, itReal, rlimitCpu, rlimitAs, stdio, ptraceOn, image, wall, sigalrm>>
    /\ UNCHANGED <<cfgvars, rvars, pvars>>

\* lines 73-76
PrctlPdeathsig ==
    /\ lpc = "prctl"
    /\ \/ /\ pdeathsig' = SIGKILL
          /\ Ok("prctl")
          /\ lpc' = "personality"
       \/ /\ Fatal("prctl")
          /\ UNCHANGED pdeathsig
    /\ UNCHANGED <<env, persona, args, itProf, itReal, rlimitCpu, rlimitAs, stdio, ptraceOn, image, wall, sigalrm>>
    /\ UNCHANGED <<cfgvars, rvars, pvars>>

\* lines 81-84
PersonalityNoRandomize ==
    /\ lpc = "personality"
    /\ \/ /\ persona' = {ADDR_NO_RANDOMIZE}
          /\ Ok("personality")
          /\ lpc' = "args"
       \/ /\ Fatal("personality")
          /\ UNCHANGED persona
    /\ UNCHANGED <<env, pdeathsig, args, itProf, itReal, rlimitCpu, rlimitAs, stdio, ptraceOn, image, wall, sigalrm>>
    /\ UNCHANGED <<cfgvars, rvars, pvars>>

\* lines 86-100
BuildArgs ==
    /\ lpc = "args"
    /\ args' = Materialize
    /\ Ok("args")
    /\ lpc' = AfterArgs
    /\ UNCHANGED <<env, pdeathsig, persona, itProf, itReal, rlimitCpu, rlimitAs, stdio, ptraceOn, image, wall, sigalrm>>
    /\ UNCHANGED <<cfgvars, rvars, pvars>>

\* lines 109-116
SetitimerProf ==
    /\ lpc = "setitimer_prof"
    /\ \/ /\ itProf' = it_prof
          /\ Ok("setitimer_prof")
          /\ lpc' = "setitimer_real"
       \/ /\ Fatal("setitimer_prof")
          /\ UNCHANGED itProf
    /\ UNCHANGED <<env, pdeathsig, persona, args, itReal, rlimitCpu, rlimitAs, stdio, ptraceOn, image, wall, sigalrm>>
    /\ UNCHANGED <<cfgvars, rvars, pvars>>

\* SetitimerReal without line 128 (the failure is logged, not returned)
SetitimerReal_FailureIgnored ==
    /\ lpc = "setitimer_real"
    /\ \/ /\ itReal' = setitimer_real(it_real)
          /\ UNCHANGED failed
       \/ /\ failed' = failed \cup {"setitimer_real"}
          /\ UNCHANGED itReal
    /\ steps' = Append(steps, "setitimer_real")
    /\ lpc' = "rlimit_cpu"
    /\ UNCHANGED lresult
    /\ UNCHANGED <<env, pdeathsig, persona, args, itProf, rlimitCpu, rlimitAs, stdio, ptraceOn, image, wall, sigalrm>>
    /\ UNCHANGED <<cfgvars, rvars, pvars>>

\* lines 122-129
SetitimerReal ==
    /\ lpc = "setitimer_real"
    /\ \/ /\ itReal' = setitimer_real(it_real)
          /\ Ok("setitimer_real")
          /\ lpc' = "rlimit_cpu"
       \/ /\ Fatal("setitimer_real")
          /\ UNCHANGED itReal
    /\ UNCHANGED <<env, pdeathsig, persona, args, itProf, rlimitCpu, rlimitAs, stdio, ptraceOn, image, wall, sigalrm>>
    /\ UNCHANGED <<cfgvars, rvars, pvars>>

\* lines 135-142
SetrlimitCpu ==
    /\ lpc = "rlimit_cpu"
    /\ \/ /\ rlimitCpu' = rl_cpu
          /\ Ok("rlimit_cpu")
          /\ lpc' = AfterTimeout
       \/ /\ Fatal("rlimit_cpu")
          /\ UNCHANGED rlimitCpu
    /\ UNCHANGED <<env, pdeathsig, persona, args, itProf, itReal, rlimitAs, stdio, ptraceOn, image, wall, sigalrm>>
    /\ UNCHANGED <<cfgvars, rvars, pvars>>

\* SetrlimitAs with a return false after line 154, like the other calls
SetrlimitAs_Fatal ==
    /\ lpc = "rlimit_as"
    /\ \/ /\ rlimitAs' = rl_as
          /\ Ok("rlimit_as")
          /\ lpc' = AfterRlimitAs
       \/ /\ Fatal("rlimit_as")
          /\ UNCHANGED rlimitAs
    /\ UNCHANGED <<env, pdeathsig, persona, args, itProf, itReal, rlimitCpu, stdio, ptraceOn, image, wall, sigalrm>>
    /\ UNCHANGED <<cfgvars, rvars, pvars>>

\* lines 148-156: a failed setrlimit(RLIMIT_AS) is logged and ignored
SetrlimitAs ==
    /\ lpc = "rlimit_as"
    /\ \/ /\ rlimitAs' = rl_as
          /\ UNCHANGED failed
       \/ /\ failed' = failed \cup {"rlimit_as"}
          /\ UNCHANGED rlimitAs
    /\ steps' = Append(steps, "rlimit_as")
    /\ lpc' = AfterRlimitAs
    /\ UNCHANGED lresult
    /\ UNCHANGED <<env, pdeathsig, persona, args, itProf, itReal, rlimitCpu, stdio, ptraceOn, image, wall, sigalrm>>
    /\ UNCHANGED <<cfgvars, rvars, pvars>>

\* lines 158-160
NullifyStdio ==
    /\ lpc = "nullify"
    /\ stdio' = util_nullifyStdio
    /\ Ok("nullify")
    /\ lpc' = AfterNullify
    /\ UNCHANGED <<env, pdeathsig, persona, args, itProf, itReal, rlimitCpu, rlimitAs, ptraceOn, image, wall, sigalrm>>
    /\ UNCHANGED <<cfgvars, rvars, pvars>>

\* lines 162-169
RedirectStdin ==
    /\ lpc = "redirect"
    /\ \/ /\ stdio' = util_redirectStdin(fileName)
          /\ Ok("redirect")
          /\ lpc' = "ptrace"
       \/ /\ Fatal("redirect")
          /\ UNCHANGED stdio
    /\ UNCHANGED <<env, pdeathsig, persona, args, itProf, itReal, rlimitCpu, rlimitAs, ptraceOn, image, wall, sigalrm>>
    /\ UNCHANGED <<cfgvars, rvars, pvars>>

\* PtraceEnable with the streams restored before line 172 returns
PtraceEnable_RecoversStdio ==
    /\ lpc = "ptrace"
    /\ \/ /\ ptraceOn' = TRUE
          /\ Ok("ptrace")
          /\ lpc' = "execvp"
          /\ UNCHANGED stdio
       \/ /\ Fatal("ptrace")
          /\ stdio' = util_recoverStdio
          /\ UNCHANGED ptraceOn
    /\ UNCHANGED <<env, pdeathsig, persona, args, itProf, itReal, rlimitCpu, rlimitAs, image, wall, sigalrm>>
    /\ UNCHANGED <<cfgvars, rvars, pvars>>

\* lines 171-173
PtraceEnable ==
    /\ lpc = "ptrace"
    /\ \/ /\ ptraceOn' = TRUE
          /\ Ok("ptrace")
          /\ lpc' = "execvp"
       \/ /\ Fatal("ptrace")
          /\ UNCHANGED ptraceOn
    /\ UNCHANGED <<env, pdeathsig, persona, args, itProf, itReal, rlimitCpu, rlimitAs, stdio, image, wall, sigalrm>>
    /\ UNCHANGED <<cfgvars, rvars, pvars>>

\* line 175: on success the image is replaced and execvp does not return
Execvp ==
    /\ lpc = "execvp"
    /\ \/ /\ image' = args
          /\ lpc' = "execd"
          /\ UNCHANGED failed
       \/ /\ failed' = failed \cup {"execvp"}
          /\ lpc' = "recover"
          /\ UNCHANGED image
    /\ steps' = Append(steps, "execvp")
    /\ UNCHANGED lresult
    /\ UNCHANGED <<env, pdeathsig, persona, args, itProf, itReal, rlimitCpu, rlimitAs, stdio, ptraceOn, wall, sigalrm>>
    /\ UNCHANGED <<cfgvars, rvars, pvars>>

\* RecoverStdio without the call of line 177 (the streams stay as they are)
RecoverStdio_Skipped ==
    /\ lpc = "recover"
    /\ lpc' = "log_fatal"
    /\ UNCHANGED <<stdio, steps, failed, lresult>>
    /\ UNCHANGED <<env, pdeathsig, persona, args, itProf, itReal, rlimitCpu, rlimitAs, ptraceOn, image, wall, sigalrm>>
    /\ UNCHANGED <<cfgvars, rvars, pvars>>

\* line 177: execvp has returned, so it failed
RecoverStdio ==
    /\ lpc = "recover"
    /\ stdio' = util_recoverStdio
    /\ steps' = Append(steps, "recover")
    /\ lpc' = "log_fatal"
    /\ UNCHANGED <<failed, lresult>>
    /\ UNCHANGED <<env, pdeathsig, persona, args, itProf, itReal, rlimitCpu, rlimitAs, ptraceOn, image, wall, sigalrm>>
    /\ UNCHANGED <<cfgvars, rvars, pvars>>

\* lines 178-179: the fatal log; the return false of line 179 is reached
\* only if LOGMSG comes back
LogFatalExec ==
    /\ lpc = "log_fatal"
    /\ steps' = Append(steps, "log_fatal")
    /\ IF LogFatalEnds
       THEN /\ lpc' = "aborted"
            /\ UNCHANGED lresult
       ELSE /\ lpc' = "returned"
            /\ lresult' = FALSE
    /\ UNCHANGED <<failed, stdio>>
    /\ UNCHANGED <<env, pdeathsig, persona, args, itProf, itReal, rlimitCpu, rlimitAs, ptraceOn, image, wall, sigalrm>>
    /\ UNCHANGED <<cfgvars, rvars, pvars>>

\* One second of wall-clock time passes while the exec'd target sleeps
\* (timers and limits survive execve); ITIMER_REAL counts down per
\* setitimer(2) and delivers SIGALRM on expiry.
WallTick ==
    /\ lpc = "execd"
    /\ wall < MaxWall
    /\ wall' = wall + 1
    /\ IF Armed(itReal)
       THEN IF itReal.it_value = 1
            THEN /\ sigalrm' = sigalrm + 1
                 /\ itReal' = [itReal EXCEPT !.it_value = itReal.it_interval]
            ELSE /\ itReal' = [itReal EXCEPT !.it_value = itReal.it_value - 1]
                 /\ UNCHANGED sigalrm
       ELSE UNCHANGED <<itReal, sigalrm>>
    /\ UNCHANGED <<lpc, env, pdeathsig, persona, args, itProf, rlimitCpu,
                   rlimitAs, stdio, ptraceOn, image, lresult, steps, failed>>
    /\ UNCHANGED <<cfgvars, rvars, pvars>>

----------------------------------------------------------------------------
\* arch_reapChild

Pids == {101, 102}
Statuses == {0, 4991}       \* exited with 0; stopped by SIGSTOP (0x137f)
PerfFds == {3, 4}
Indeterminate == -1         \* value of an int never assigned

Call(c, p, s, fd, ret) == [call |-> c, pid |-> p, status |-> s, fd |-> fd, ret |-> ret]

\* Wait3 with the loop condition of line 189 as < 0: a result of 0 is taken
\* for a state change
Wait3_AcceptsZero ==
    /\ rpc = "wait"
    /\ nWait < MaxWait
    /\ nWait' = nWait + 1
    /\ \E r \in {-1, 0} \cup Pids, s \in Statuses, junk \in {perfFd, Indeterminate} :
         /\ pid' = r
         /\ IF r < 0
            THEN UNCHANGED <<rpc, status, verdict, perfFd, waits>>
            ELSE /\ status' = s
                 /\ verdict' = "none"
                 /\ perfFd' = junk
                 /\ waits' = IF r > 0 THEN Append(waits, [pid |-> r, status |-> s]) ELSE waits
                 /\ rpc' = "perf"
    /\ UNCHANGED <<perfEnabled, handle, rlog>>
    /\ UNCHANGED <<cfgvars, lvars, pvars>>

\* line 189: one wait3 call; a result <= 0 repeats the inner while loop.
\* A new iteration of the for loop starts on success, with a fresh perfFd
\* (line 191): its value is whatever the slot holds.
Wait3 ==
    /\ rpc = "wait"
    /\ nWait < MaxWait
    /\ nWait' = nWait + 1
    /\ \E r \in {-1, 0} \cup Pids, s \in Statuses, junk \in {perfFd, Indeterminate} :
         /\ pid' = r
         /\ IF r <= 0
            THEN UNCHANGED <<rpc, status, verdict, perfFd, waits>>
            ELSE /\ status' = s
                 /\ verdict' = "none"
                 /\ perfFd' = junk
                 /\ waits' = Append(waits, [pid |-> r, status |-> s])
                 /\ rpc' = "perf"
    /\ UNCHANGED <<perfEnabled, handle, rlog>>
    /\ UNCHANGED <<cfgvars, lvars, pvars>>

\* PerfEnable without line 196 (perfEnabled is never set)
PerfEnable_NoFlag ==
    /\ rpc = "perf"
    /\ \E ok \in BOOLEAN, fd \in PerfFds :
         /\ rlog' = Append(rlog, Call("arch_perfEnable", pid, status, fd, ok))
         /\ IF ok
            THEN /\ perfFd' = fd
                 /\ handle' = fd
                 /\ rpc' = "classify"
            ELSE /\ rpc' = IF LogFatalEnds THEN "aborted" ELSE "classify"
                 /\ UNCHANGED <<perfFd, handle>>
    /\ UNCHANGED <<pid, status, verdict, nWait, waits, perfEnabled>>
    /\ UNCHANGED <<cfgvars, lvars, pvars>>

\* lines 192-197
PerfEnable ==
    /\ rpc = "perf"
    /\ IF perfEnabled = FALSE
       THEN \E ok \in BOOLEAN, fd \in PerfFds :
              /\ rlog' = Append(rlog, Call("arch_perfEnable", pid, status, fd, ok))
              /\ IF ok
                 THEN /\ perfFd' = fd
                      /\ handle' = fd
                      /\ perfEnabled' = TRUE
                      /\ rpc' = "classify"
                 ELSE /\ IF LogFatalEnds
                         THEN /\ rpc' = "aborted"
                              /\ UNCHANGED perfEnabled
                         ELSE /\ rpc' = "classify"
                              /\ perfEnabled' = TRUE
                      /\ UNCHANGED <<perfFd, handle>>
       ELSE /\ rpc' = "classify"
            /\ UNCHANGED <<perfFd, handle, perfEnabled, rlog>>
    /\ UNCHANGED <<pid, status, verdict, nWait, waits>>
    /\ UNCHANGED <<cfgvars, lvars, pvars>>

\* PtraceAnalyze with the result of line 201 ignored: the body of the if
\* runs after every classification
PtraceAnalyze_AlwaysDone ==
    /\ rpc = "classify"
    /\ \E terminal \in BOOLEAN :
         /\ rlog' = Append(rlog, Call("arch_ptraceAnalyze", pid, status, perfFd, terminal))
         /\ verdict' = IF terminal THEN "terminal" ELSE "nonterminal"
         /\ rpc' = "perf_analyze"
    /\ UNCHANGED <<pid, status, perfEnabled, perfFd, handle, nWait, waits>>
    /\ UNCHANGED <<cfgvars, lvars, pvars>>

\* PtraceAnalyze without the return of line 203: the loop goes on after a
\* terminal verdict
PtraceAnalyze_NeverDone ==
    /\ rpc = "classify"
    /\ \E terminal \in BOOLEAN :
         /\ rlog' = Append(rlog, Call("arch_ptraceAnalyze", pid, status, perfFd, terminal))
         /\ verdict' = IF terminal THEN "terminal" ELSE "nonterminal"
         /\ rpc' = "wait"
    /\ UNCHANGED <<pid, status, perfEnabled, perfFd, handle, nWait, waits>>
    /\ UNCHANGED <<cfgvars, lvars, pvars>>

\* line 201
PtraceAnalyze ==
    /\ rpc = "classify"
    /\ \E terminal \in BOOLEAN :
         /\ rlog' = Append(rlog, Call("arch_ptraceAnalyze", pid, status, perfFd, terminal))
         /\ verdict' = IF terminal THEN "terminal" ELSE "nonterminal"
         /\ rpc' = IF terminal THEN "perf_analyze" ELSE "wait"
    /\ UNCHANGED <<pid, status, perfEnabled, perfFd, handle, nWait, waits>>
    /\ UNCHANGED <<cfgvars, lvars, pvars>>

\* PerfAnalyze without line 202 (returns without the analysis)
PerfAnalyze_Skipped ==
    /\ rpc = "perf_analyze"
    /\ rpc' = "returned"
    /\ UNCHANGED <<pid, status, perfEnabled, perfFd, handle, verdict, nWait, waits, rlog>>
    /\ UNCHANGED <<cfgvars, lvars, pvars>>

\* lines 202-203
PerfAnalyze ==
    /\ rpc = "perf_analyze"
    /\ rlog' = Append(rlog, Call("arch_perfAnalyze", pid, status, perfFd, TRUE))
    /\ rpc' = "returned"
    /\ UNCHANGED <<pid, status, perfEnabled, perfFd, handle, verdict, nWait, waits>>
    /\ UNCHANGED <<cfgvars, lvars, pvars>>

----------------------------------------------------------------------------
\* Initial states and specifications

ConfigInit ==
    /\ cmdline \in Templates
    /\ fuzzStdin \in BOOLEAN
    /\ nullifyStdio \in BOOLEAN
    /\ tmOut \in 0..MaxTmOut
    /\ asLimit \in {0, 200}
    /\ fileName \in FileNames

\* argv of the forked child before execvp
SelfImage == <<"honggfuzz">>

\* One fixed configuration, for runs of the supervisor alone
ConfigFixed ==
    /\ cmdline = Template(2, {2})
    /\ fuzzStdin = FALSE
    /\ nullifyStdio = FALSE
    /\ tmOut = 1
    /\ asLimit = 0
    /\ fileName = "/tmp/case1"

\* The forked child on entry to arch_launchChild
LaunchInit ==
    /\ lpc = "setenv_malloc"
    /\ env = [n \in {"MALLOC_CHECK_", "ASAN_OPTIONS"} |-> ""]
    /\ pdeathsig = "none"
    /\ persona = {}
    /\ args = <<>>
    /\ itProf = Disarmed
    /\ itReal = Disarmed
    /\ rlimitCpu = NoLimit
    /\ rlimitAs = NoLimit
    /\ stdio = TtyStdio
    /\ ptraceOn = FALSE
    /\ image = SelfImage
    /\ lresult = TRUE
    /\ steps = <<>>
    /\ failed = {}
    /\ wall = 0
    /\ sigalrm = 0

\* The supervisor on entry to arch_reapChild (lines 184-185)
ReapInit ==
    /\ rpc = "wait"
    /\ pid = 0
    /\ status = 0
    /\ perfEnabled = FALSE
    /\ perfFd = Indeterminate
    /\ handle = Indeterminate
    /\ verdict = "none"
    /\ rlog = <<>>
    /\ nWait = 0
    /\ waits = <<>>

\* Right after the fork: both processes live, no signal sent
ForkInit ==
    /\ parentAlive = TRUE
    /\ killed = FALSE

InitLaunch == ConfigInit /\ LaunchInit /\ ReapInit /\ ForkInit
InitReap == ConfigFixed /\ LaunchInit /\ ReapInit /\ ForkInit

NextLaunch ==
    \/ SetenvMallocCheck
    \/ SetenvAsan
    \/ PrctlPdeathsig
    \/ PersonalityNoRandomize
    \/ BuildArgs
    \/ SetitimerProf
    \/ SetitimerReal
    \/ SetrlimitCpu
    \/ SetrlimitAs
    \/ NullifyStdio
    \/ RedirectStdin
    \/ PtraceEnable
    \/ Execvp
    \/ RecoverStdio
    \/ LogFatalExec
    \/ WallTick

NextReap ==
    \/ Wait3
    \/ PerfEnable
    \/ PtraceAnalyze
    \/ PerfAnalyze

\* The supervisor dies: the kernel sends the child the parent-death signal
\* it has requested so far (prctl(2), PR_SET_PDEATHSIG), if any.
ParentDies ==
    /\ parentAlive
    /\ parentAlive' = FALSE
    /\ killed' = (pdeathsig = SIGKILL)
    /\ UNCHANGED <<cfgvars, lvars, rvars>>

\* The forked child runs arch_launchChild (and then the target) until killed
ChildStep == ~killed /\ NextLaunch

NextFork ==
    \/ ChildStep
    \/ ParentDies

\* Configurations with a short command line
ConfigShort == ConfigInit /\ Len(cmdline) <= MaxShort
InitFork == ConfigShort /\ LaunchInit /\ ReapInit /\ ForkInit

\* arch_launchChild in the forked child
SpecLaunch == InitLaunch /\ [][NextLaunch]_vars
\* arch_reapChild in the supervisor
SpecReap == InitReap /\ [][NextReap]_vars
\* arch_reapChild, where every collaborator call returns and the code goes
\* on to its next statement (wait3 may block for ever)
SpecReapFair ==
    /\ SpecReap
    /\ WF_vars(PerfEnable)
    /\ WF_vars(PtraceAnalyze)
    /\ WF_vars(PerfAnalyze)
\* The forked child running arch_launchChild while the supervisor may die
SpecFork == InitFork /\ [][NextFork]_vars

----------------------------------------------------------------------------
\* Properties of arch_reapChild (checked under SpecReap)

Calls(c) == {i \in DOMAIN rlog : rlog[i].call = c}
NonTerminal == {i \in Calls("arch_ptraceAnalyze") : ~rlog[i].ret}
Terminal == {i \in Calls("arch_ptraceAnalyze") : rlog[i].ret}

\* C1: arch_perfEnable is called at most once per run of arch_reapChild,
\* however many non-terminal classifications precede the terminal one.
C1_PerfEnableAtMostOnce == Cardinality(Calls("arch_perfEnable")) <= 1

\* A run that returned after two non-terminal classifications, with one
\* activation.
C1_Witness ==
    /\ rpc = "returned"
    /\ Cardinality(NonTerminal) >= 2
    /\ Cardinality(Calls("arch_perfEnable")) = 1

\* C2: arch_reapChild has returned (or is on its way out, past line 201)
\* exactly when arch_ptraceAnalyze gave a terminal verdict for the most
\* recently observed state change; after a non-terminal verdict it is back
\* in wait3 and has not returned.
C2_ReturnIffTerminal ==
    /\ rpc = "returned" =>
         /\ verdict = "terminal"
         /\ \E i \in Terminal :
              /\ \A j \in Calls("arch_ptraceAnalyze") : j <= i
              /\ rlog[i].pid = pid
              /\ rlog[i].status = status
    /\ verdict = "terminal" => rpc \in {"perf_analyze", "returned"}
    /\ verdict = "nonterminal" => rpc = "wait"

\* A run that returned on a terminal verdict after a non-terminal one and
\* a failed wait.
C2_Witness ==
    /\ rpc = "returned"
    /\ verdict = "terminal"
    /\ NonTerminal # {}
    /\ nWait > Cardinality(Calls("arch_ptraceAnalyze"))

\* C3: a run that returns has called arch_perfAnalyze exactly once, as its
\* last call, right after the terminal classification; arch_perfAnalyze
\* never follows a non-terminal classification.
C3_PerfAnalyzeOnceAtEnd ==
    /\ Cardinality(Calls("arch_perfAnalyze")) <= 1
    /\ \A i \in Calls("arch_perfAnalyze") :
         /\ i > 1
         /\ rlog[i - 1].call = "arch_ptraceAnalyze"
         /\ rlog[i - 1].ret
         /\ rpc = "returned"
         /\ i = Len(rlog)
    /\ rpc = "returned" => Cardinality(Calls("arch_perfAnalyze")) = 1

\* The child stops, then exits: two state changes, one activation, one
\* analysis.
C3_Witness ==
    /\ rpc = "returned"
    /\ Len(rlog) = 4
    /\ rlog[1].call = "arch_perfEnable"
    /\ rlog[2].call = "arch_ptraceAnalyze" /\ rlog[2].status = 4991 /\ ~rlog[2].ret
    /\ rlog[3].call = "arch_ptraceAnalyze" /\ rlog[3].status = 0 /\ rlog[3].ret
    /\ rlog[4].call = "arch_perfAnalyze"

----------------------------------------------------------------------------
\* Properties of arch_launchChild (checked under SpecLaunch)

Range(q) == {q[i] : i \in DOMAIN q}
\* The index of call c in steps (0 when it was not made)
IndexOf(c) == IF c \in Range(steps) THEN CHOOSE i \in DOMAIN steps : steps[i] = c ELSE 0
\* The call s was made and succeeded
Done(s) == s \in Range(steps) /\ s \notin failed
Placeholders == {i \in DOMAIN cmdline : cmdline[i] = HF_FILE_PLACEHOLDER}

\* C4: with tmOut = t > 0, once the timeout section (lines 105-143) is
\* through, ITIMER_PROF is armed with period t, ITIMER_REAL is armed with
\* value 2t and RLIMIT_CPU is 2t (soft = hard); with t = 0 no timer is armed
\* and no CPU limit is set.
C4_ThreeMechanismsArmed ==
    /\ (tmOut > 0 /\ Done("rlimit_cpu") /\ wall = 0) =>
         /\ Armed(itProf)
         /\ itProf.it_interval = tmOut
         /\ Armed(itReal)
         /\ itReal.it_value = 2 * tmOut
         /\ rlimitCpu = [rlim_cur |-> 2 * tmOut, rlim_max |-> 2 * tmOut]
    /\ tmOut = 0 =>
         /\ ~Armed(itProf)
         /\ ~Armed(itReal)
         /\ rlimitCpu = NoLimit

\* C5: with tmOut = t > 0, the wall-clock timer has delivered no signal
\* before 2t seconds have passed in the exec'd target and exactly one from
\* then on.
C5_WallTimerFiresOnce ==
    (lpc = "execd" /\ tmOut > 0) =>
        sigalrm = (IF wall >= 2 * tmOut THEN 1 ELSE 0)

\* C6: without stdin fuzzing, for a template holding the placeholder exactly
\* once, args has the template's length, holds fileName at the placeholder's
\* position and the template's argument elsewhere, and ends with NULL.
C6_PlaceholderSubstituted ==
    (Done("args") /\ ~fuzzStdin /\ Cardinality(Placeholders) = 1) =>
        /\ Len(args) = Len(cmdline) + 1
        /\ args[Len(args)] = NULL
        /\ \A i \in DOMAIN cmdline :
             args[i] = IF i \in Placeholders THEN fileName ELSE cmdline[i]

\* C7: with stdin fuzzing, args equals the template element for element
\* (then NULL), and the exec'd image reads the test case on standard input.
C7_StdinModeKeepsTemplate ==
    fuzzStdin =>
        /\ Done("args") => args = cmdline \o <<NULL>>
        /\ lpc = "execd" =>
             /\ image = cmdline \o <<NULL>>
             /\ stdio.in = fileName

\* C8: for a template of more than ARGS_MAX arguments, building the
\* argument vector makes the launch return false, and the image is never
\* replaced.
C8_OverlongTemplateFails ==
    (Len(cmdline) > ARGS_MAX /\ "args" \in Range(steps)) =>
        /\ lpc = "returned"
        /\ lresult = FALSE
        /\ image = SelfImage

\* C9 (as claimed): the calls are made in the order harden environment,
\* arm timeout, address-space limit, nullify, redirect stdin, trace-attach,
\* materialize arguments, replace image.
ClaimedRank(c) ==
    CASE c \in {"setenv_malloc", "setenv_asan", "prctl", "personality"} -> 1
      [] c \in {"setitimer_prof", "setitimer_real", "rlimit_cpu"} -> 2
      [] c = "rlimit_as" -> 3
      [] c = "nullify" -> 4
      [] c = "redirect" -> 5
      [] c = "ptrace" -> 6
      [] c = "args" -> 7
      [] c = "execvp" -> 8
      [] OTHER -> 9
C9_ClaimedOrder ==
    \A i, j \in DOMAIN steps :
        i < j => ClaimedRank(steps[i]) <= ClaimedRank(steps[j])

\* The calls of a launch that reaches execvp, in the order of the code
CodeOrder ==
    <<"setenv_malloc", "setenv_asan", "prctl", "personality", "args">>
    \o (IF tmOut # 0 THEN <<"setitimer_prof", "setitimer_real", "rlimit_cpu">> ELSE <<>>)
    \o (IF asLimit # 0 THEN <<"rlimit_as">> ELSE <<>>)
    \o (IF nullifyStdio THEN <<"nullify">> ELSE <<>>)
    \o (IF fuzzStdin THEN <<"redirect">> ELSE <<>>)
    \o <<"ptrace", "execvp">>

\* C9 (amended): the calls are made in the order harden environment,
\* materialize arguments, arm timeout (if configured), address-space limit
\* (if configured), nullify (if configured), redirect stdin (if stdin
\* fuzzing), trace-attach, replace image: what has been done so far is
\* always an initial part of that list, and all of it when the image is
\* replaced.
C9_CodeOrder ==
    /\ Len(steps) <= Len(CodeOrder) => steps = SubSeq(CodeOrder, 1, Len(steps))
    /\ Len(steps) > Len(CodeOrder) =>
         steps = SubSeq(CodeOrder \o <<"recover", "log_fatal">>, 1, Len(steps))
    /\ lpc = "execd" => steps = CodeOrder

\* A launch with every optional step configured that replaced the image
C9_Witness ==
    /\ lpc = "execd"
    /\ Len(steps) = 13

\* C10: once a fatal call has failed, arch_launchChild has returned false,
\* the failed call is the last call it made, no other fatal call failed,
\* and the image was not replaced.
FatalCalls ==
    {"setenv_malloc", "setenv_asan", "prctl", "personality", "setitimer_prof",
     "setitimer_real", "rlimit_cpu", "redirect", "ptrace"}
C10_FatalFailureAborts ==
    \A f \in failed \cap FatalCalls :
        /\ lpc = "returned"
        /\ lresult = FALSE
        /\ steps[Len(steps)] = f
        /\ failed \cap FatalCalls = {f}
        /\ "execvp" \notin Range(steps)
        /\ image = SelfImage

\* The stdin redirect failed after the streams were nullified and the
\* timeout armed.
C10_Witness ==
    /\ failed = {"redirect"}
    /\ Done("nullify")
    /\ Done("rlimit_cpu")
    /\ lpc = "returned"

\* C11: a failed setrlimit(RLIMIT_AS) does not end the launch: control goes
\* on to the step that follows a successful one, the calls made are those
\* of CodeOrder, and a launch that returned false had another call fail.
C11_RlimitAsFailureIgnored ==
    "rlimit_as" \in failed =>
        /\ steps[Len(steps)] = "rlimit_as" => (lpc = AfterRlimitAs /\ lresult)
        /\ Len(steps) <= Len(CodeOrder) => steps = SubSeq(CodeOrder, 1, Len(steps))
        /\ lpc = "returned" => failed \cap FatalCalls # {}
        /\ lpc = "execd" => steps = CodeOrder

\* The address-space limit was refused and the image was replaced all the
\* same, after the streams were nullified.
C11_Witness ==
    /\ "rlimit_as" \in failed
    /\ rlimitAs = NoLimit
    /\ Done("nullify")
    /\ lpc = "execd"

\* The launch has ended without the image replaced: arch_launchChild
\* returned false, or the process ended inside the fatal log
LaunchFailed ==
    /\ image = SelfImage
    /\ \/ lpc = "returned" /\ lresult = FALSE
       \/ lpc = "aborted"

\* C12: when execvp has failed, util_recoverStdio is the next call and the
\* streams are restored when the fatal error is logged; the fatal log is
\* the last call, and with it the launch has failed.
C12_ExecFailureRecoversFirst ==
    /\ "execvp" \in failed =>
         /\ lpc \in {"recover", "log_fatal"} \/ LaunchFailed
         /\ lpc # "recover" =>
              /\ "recover" \in Range(steps)
              /\ steps[IndexOf("recover") - 1] = "execvp"
              /\ stdio = TtyStdio
         /\ LaunchFailed =>
              /\ Len(steps) >= 3
              /\ SubSeq(steps, Len(steps) - 2, Len(steps)) = <<"execvp", "recover", "log_fatal">>
    /\ "log_fatal" \in Range(steps) =>
         /\ "execvp" \in failed
         /\ IndexOf("recover") = IndexOf("log_fatal") - 1
         /\ LaunchFailed

\* execvp failed with the streams nullified and stdin redirected, and the
\* fatal error has been logged.
C12_Witness ==
    /\ "execvp" \in failed
    /\ "log_fatal" \in Range(steps)
    /\ LaunchFailed
    /\ Done("nullify")
    /\ Done("redirect")

Hardening == {"setenv_malloc", "setenv_asan", "prctl", "personality"}
TimeoutCalls == {"setitimer_prof", "setitimer_real", "rlimit_cpu"}

\* C13: when the image has been replaced, both setenv calls, the prctl, the
\* personality call and (tmOut # 0) the three timeout calls were made
\* before execvp and succeeded, execvp is the last call made, and their
\* settings are in effect in the process: both variables set, the
\* parent-death signal requested, ASLR off, and with tmOut # 0 both timers
\* running and the CPU limit set.
C13_HardenedBeforeExec ==
    lpc = "execd" =>
        /\ steps[Len(steps)] = "execvp"
        /\ \A c \in Hardening \cup (IF tmOut # 0 THEN TimeoutCalls ELSE {}) :
             /\ Done(c)
             /\ IndexOf(c) < IndexOf("execvp")
             /\ Cardinality({i \in DOMAIN steps : steps[i] = c}) = 1
        /\ env["MALLOC_CHECK_"] = "3"
        /\ env["ASAN_OPTIONS"] = "handle_segv=0:abort_on_error=1"
        /\ pdeathsig = SIGKILL
        /\ ADDR_NO_RANDOMIZE \in persona
        /\ tmOut # 0 =>
             /\ rlimitCpu = rl_cpu
             /\ Armed(itProf)
             /\ Armed(itReal)

\* The streams a launch that returned false before execvp leaves behind: those set by the stream calls that succeeded.
StreamsLeft ==
    LET base == IF Done("nullify") THEN NullStdio ELSE TtyStdio
    IN  IF Done("redirect") THEN [base EXCEPT !.in = fileName] ELSE base

\* C20: util_recoverStdio is called exactly on the exec-failure path; a
\* launch that returned false for another reason leaves the streams as the
\* stream calls before the failure set them (nullified if they were
\* nullified, untouched if the failure came before).
C20_RecoverOnlyOnExecFailure ==
    /\ "recover" \in Range(steps) =>
         ("execvp" \in failed /\ steps[IndexOf("recover") - 1] = "execvp")
    /\ Cardinality({i \in DOMAIN steps : steps[i] = "recover"}) <= 1
    /\ lpc = "returned" =>
         /\ "recover" \notin Range(steps)
         /\ stdio = StreamsLeft
         /\ "nullify" \notin Range(steps) /\ "redirect" \notin Range(steps)
              => stdio = TtyStdio

\* Trace-attach failed after the streams were nullified: they stay so.
C20_Witness ==
    /\ lpc = "returned"
    /\ failed = {"ptrace"}
    /\ Done("nullify")
    /\ stdio.out = "/dev/null"

----------------------------------------------------------------------------
\* Further properties of arch_reapChild

\* The (pid, status) arguments of the arch_ptraceAnalyze calls, in order
Analyzed ==
    LET q == SelectSeq(rlog, LAMBDA e : e.call = "arch_ptraceAnalyze")
    IN  [i \in 1..Len(q) |-> [pid |-> q[i].pid, status |-> q[i].status]]

\* C14: after a wait3 result <= 0 the code is still waiting; nothing is
\* called before a result > 0; arch_ptraceAnalyze is called once per
\* result > 0, in order, with that wait's pid and status (the call for the
\* latest one may still be ahead); and only its verdict decides between
\* waiting again and leaving.
C14_WaitRetriedAndClassifiedOnce ==
    /\ pid <= 0 => rpc = "wait"
    /\ waits = <<>> => (rpc = "wait" /\ rlog = <<>>)
    /\ rpc # "wait" => (pid = waits[Len(waits)].pid /\ status = waits[Len(waits)].status)
    /\ Len(Analyzed) <= Len(waits)
    /\ Len(waits) - Len(Analyzed) <= 1
    /\ Analyzed = SubSeq(waits, 1, Len(Analyzed))
    /\ rpc \in {"wait", "perf_analyze", "returned"} => Analyzed = waits
    /\ verdict = "terminal" => rpc \in {"perf_analyze", "returned"}
    /\ verdict = "nonterminal" => rpc = "wait"

\* Two failed waits and two different state changes, then the return.
C14_Witness ==
    /\ rpc = "returned"
    /\ nWait = 4
    /\ Len(waits) = 2
    /\ waits[1].pid # waits[2].pid
    /\ waits[1].status # waits[2].status

\* C15: once an arch_perfEnable call has failed, the engine is aborted: that
\* call is the last one made, and no classification or analysis follows.
C15_FailedActivationAborts ==
    \A i \in Calls("arch_perfEnable") :
        ~rlog[i].ret =>
            /\ rpc = "aborted"
            /\ i = Len(rlog)
            /\ verdict = "none"
            /\ ~perfEnabled

\* The activation failed on the first state change, after a failed wait.
C15_Witness ==
    /\ rpc = "aborted"
    /\ Len(rlog) = 1
    /\ nWait = 2

\* C17: arch_perfEnable is the first collaborator call of the run, made
\* after a wait3 result > 0 and with the pid of the first such result;
\* no classification or analysis is made without it.
C17_ActivationFirst ==
    /\ \A i \in Calls("arch_perfEnable") :
         /\ i = 1
         /\ waits # <<>>
         /\ rlog[i].pid = waits[1].pid
    /\ rlog # <<>> => rlog[1].call = "arch_perfEnable"
    /\ waits = <<>> => ~perfEnabled
    /\ perfEnabled => (Calls("arch_perfEnable") = {1} /\ rlog[1].ret)

\* Activated on the first state change, which came after a failed wait, and
\* a second state change with another pid is about to be classified.
C17_Witness ==
    /\ rpc = "classify"
    /\ perfEnabled
    /\ Len(waits) = 2
    /\ waits[1].pid # waits[2].pid
    /\ nWait = 3

\* C18: the descriptor passed to arch_perfAnalyze is the one the activation
\* produced.
C18_AnalyzeGetsActivationHandle ==
    \A i \in Calls("arch_perfAnalyze") :
        /\ rlog[i].fd = handle
        /\ rlog[i].fd = rlog[1].fd

\* C19: a terminal verdict leads to the return; and as long as every wait3
\* has failed, the function is waiting and has called no collaborator.
C19_TerminalLeadsToReturn ==
    /\ (verdict = "terminal") ~> (rpc = "returned")
    /\ [](waits = <<>> => (rpc = "wait" /\ rlog = <<>>))

\* Two failed waits, then a state change classified terminal, and the return.
C19_Witness ==
    /\ rpc = "returned"
    /\ nWait = 3
    /\ Len(waits) = 1

----------------------------------------------------------------------------
\* Supervisor and child (checked under SpecFork)

\* C16: when the supervisor is dead and the child has replaced its image,
\* the child has been sent the kill signal.
C16_OrphanIsKilled ==
    (~parentAlive /\ lpc = "execd") => killed

====
